---- MODULE Spec2Model ----
(***************************************************************************)
(* A model of the nage narrative engine: prompt classification             *)
(* (Prompt::model), prompt validation (Prompt::validate), the usable-choice *)
(* filter (Prompt::usable_choices), newline separation of text lines        *)
(* (Text::get_separated_lines), built-in references                         *)
(* (TextContext::global_variable) and the game loop (begin, take_input,     *)
(* handle_choice, handle_command, handle_quit, shutdown).                   *)
(***************************************************************************)
EXTENDS Integers, Sequences, FiniteSets, TLC

VARIABLES
    arg,        \* the arguments of the pure function under check
    ret,        \* its return value, NoCall before the call
    began,      \* player.began
    entry,      \* player.latest_entry(): the current location
    notes,      \* player.notes
    variables,  \* player.variables
    pc,         \* where the game is: "begin", "loop", "input", "returned", "exited", "crashed"
    model,      \* begin's local `model`
    choices,    \* begin's local `choices`
    outcome,    \* what the last step of the loop produced
    silent,     \* what begin returned
    exiting     \* whether shutdown printed "Exiting..."

vars == <<arg, ret, began, entry, notes, variables, pc, model, choices, outcome, silent, exiting>>

gvars == <<began, entry, notes, variables, pc, model, choices, outcome, silent, exiting>>

----------------------------------------------------------------------------
(* Option<T> *)

None == [some |-> FALSE]

Some(v) == [some |-> TRUE, value |-> v]

NoCall == [op |-> "none"]

(* The bounds of the model. *)

MaxChoices == 2

MaxUsable == 3

MaxLines == 3

----------------------------------------------------------------------------
(* Text and TextLines.  A templatable value is a literal or a template     *)
(* that reads a variable of the context.                                    *)

Value(v) == [templated |-> FALSE, value |-> v]

Template(name) == [templated |-> TRUE, name |-> name]

Text(content, mode, newline) == [content |-> content, mode |-> mode, newline |-> newline]

TextMode == {"dialogue", "action", "system"}

Farewell == <<Text(Value("The end."), Value("dialogue"), None)>>

FarewellTo == <<Text(Template("name"), Value("dialogue"), None)>>

----------------------------------------------------------------------------
(* A text context: the owned copies of the player's notes and variables,   *)
(* the metadata name of the manifest and the language.                     *)

Metadata(name) == [name |-> name, authors |-> <<"Ann", "Bo">>, version |-> <<0, 3, 1>>]

TextContext(config_name, ns, vs, lang) ==
    [config |-> [metadata |-> Metadata(config_name)], notes |-> ns, variables |-> vs,
     lang |-> lang]

(* FromStr of TextMode and of bool. *)
Parse(type, str) ==
    IF type = "TextMode"
    THEN IF str \in TextMode THEN Some(str) ELSE None
    ELSE IF str = "true" THEN Some(TRUE)
    ELSE IF str = "false" THEN Some(FALSE)
    ELSE None

(* TemplatableValue::get_value: a literal as it is; a template filled from *)
(* the variables of the context and parsed, an error when the variable is  *)
(* unknown or its content does not parse.                                  *)
GetValue(tv, type, context) ==
    IF ~tv.templated
    THEN [ok |-> TRUE, value |-> tv.value]
    ELSE IF tv.name \notin DOMAIN context.variables
    THEN [ok |-> FALSE, error |-> "UnknownVariable"]
    ELSE LET parsed == Parse(type, context.variables[tv.name]) IN
         IF parsed.some
         THEN [ok |-> TRUE, value |-> parsed.value]
         ELSE [ok |-> FALSE, error |-> "TypeMismatch"]

(* The comparison of the modes of a line and the line before it: the       *)
(* closure of Text::newline, each get_value followed by `?`.               *)
ModeDiffers(self, line, context) ==
    LET a == GetValue(self.mode, "TextMode", context)
        b == GetValue(line.mode, "TextMode", context)
    IN  IF ~a.ok THEN a
        ELSE IF ~b.ok THEN b
        ELSE [ok |-> TRUE, value |-> a.value # b.value]

NewlineModeOnly(self, previous, context) ==
    IF previous.some
    THEN ModeDiffers(self, previous.value, context)
    ELSE [ok |-> TRUE, value |-> FALSE]

(* Text::newline.  The argument of unwrap_or is computed before the        *)
(* override is looked at and has no effect when the override is there.     *)
Newline(self, previous, context) ==
    LET default == IF previous.some
                   THEN ModeDiffers(self, previous.value, context)
                   ELSE [ok |-> TRUE, value |-> FALSE]
    IN  IF self.newline.some
        THEN GetValue(self.newline.value, "bool", context)
        ELSE default

(* The collect of Text::get_separated_lines from line `index` on: the      *)
(* first line whose newline is an Err ends it with that Err.               *)
RECURSIVE SeparateFrom(_, _, _, _)
SeparateFrom(lines, index, context, done) ==
    IF index > Len(lines)
    THEN [ok |-> TRUE, value |-> done]
    ELSE LET previous == IF index - 1 >= 1 THEN Some(lines[index - 1]) ELSE None
             nl == Newline(lines[index], previous, context)
         IN  IF nl.ok
             THEN SeparateFrom(lines, index + 1, context,
                               Append(done, <<nl.value, lines[index]>>))
             ELSE nl

(* Text::get_separated_lines *)
GetSeparatedLines(lines, context) == SeparateFrom(lines, 1, context, <<>>)

----------------------------------------------------------------------------
(* Built-in references.  A reference is the sequence of its characters.    *)

NagePrefix == <<"n", "a", "g", "e", ":">>

GameName == <<"g", "a", "m", "e", "_", "n", "a", "m", "e">>

GameAuthors == <<"g", "a", "m", "e", "_", "a", "u", "t", "h", "o", "r", "s">>

GameVersion == <<"g", "a", "m", "e", "_", "v", "e", "r", "s", "i", "o", "n">>

Lang == <<"l", "a", "n", "g">>

(* char::to_lowercase on the letters of the references. *)
LowerChar(c) ==
    CASE c = "A" -> "a" [] c = "E" -> "e" [] c = "G" -> "g" [] c = "I" -> "i"
      [] c = "M" -> "m" [] c = "N" -> "n" [] OTHER -> c

(* str::to_lowercase *)
ToLowercase(str) == [i \in 1..Len(str) |-> LowerChar(str[i])]

(* str::strip_prefix *)
StripPrefix(str, prefix) ==
    IF Len(str) >= Len(prefix) /\ SubSeq(str, 1, Len(prefix)) = prefix
    THEN Some(SubSeq(str, Len(prefix) + 1, Len(str)))
    ELSE None

(* [String]::join *)
RECURSIVE Join(_, _)
Join(strs, sep) ==
    IF Len(strs) = 0 THEN ""
    ELSE IF Len(strs) = 1 THEN strs[1]
    ELSE strs[1] \o sep \o Join(Tail(strs), sep)

(* Version::to_string *)
VersionToString(v) == ToString(v[1]) \o "." \o ToString(v[2]) \o "." \o ToString(v[3])

(* The name the player's variables know a reference by. *)
AsKey(name) ==
    IF name = GameName THEN "game_name" ELSE IF name = Lang THEN "lang" ELSE "other"

GlobalVariablePlayerFirst(self, var) ==
    LET stripped == StripPrefix(ToLowercase(var), NagePrefix) IN
    IF ~stripped.some THEN None
    ELSE LET name == stripped.value IN
         IF AsKey(name) \in DOMAIN self.variables THEN Some(self.variables[AsKey(name)])
         ELSE IF name = GameName THEN Some(self.config.metadata.name)
         ELSE IF name = GameAuthors THEN Some(Join(self.config.metadata.authors, ", "))
         ELSE IF name = GameVersion THEN Some(VersionToString(self.config.metadata.version))
         ELSE IF name = Lang THEN Some(self.lang)
         ELSE None

(* TextContext::global_variable *)
GlobalVariable(self, var) ==
    LET stripped == StripPrefix(ToLowercase(var), NagePrefix) IN
    IF ~stripped.some THEN None
    ELSE LET name == stripped.value IN
         IF name = GameName THEN Some(self.config.metadata.name)
         ELSE IF name = GameAuthors THEN Some(Join(self.config.metadata.authors, ", "))
         ELSE IF name = GameVersion THEN Some(VersionToString(self.config.metadata.version))
         ELSE IF name = Lang THEN Some(self.lang)
         ELSE None

----------------------------------------------------------------------------
(* Choice and Prompt. *)

Choice(response, input, ending, jump, require, apply, set) ==
    [response |-> response, input |-> input, ending |-> ending, jump |-> jump,
     require |-> require, apply |-> apply, set |-> set]

Input(name, text) == [name |-> name, text |-> text]

Bare(response, input, ending, jump) ==
    Choice(response, input, ending, jump, None, {}, <<>>)

BoundedSeq(S, n) == UNION {[1..k -> S] : k \in 0..n}

(* PromptModel *)

InputModel(name, text) == [tag |-> "Input", name |-> name, text |-> text]

ResponseModel == [tag |-> "Response"]

RedirectModel(choice) == [tag |-> "Redirect", choice |-> choice]

EndingModel(lines) == [tag |-> "Ending", lines |-> lines]

ModelEndingFirst(cs) ==
    IF Len(cs) = 1
    THEN LET choice == cs[1] IN
         IF choice.response.some = FALSE /\ choice.ending.some
         THEN EndingModel(choice.ending.value)
         ELSE IF choice.input.some
         THEN InputModel(choice.input.value.name, choice.input.value.text)
         ELSE IF choice.response.some = FALSE
         THEN RedirectModel(choice)
         ELSE ResponseModel
    ELSE ResponseModel

ModelIgnoreResponse(cs) ==
    IF Len(cs) = 1
    THEN LET choice == cs[1] IN
         IF choice.input.some
         THEN InputModel(choice.input.value.name, choice.input.value.text)
         ELSE IF choice.ending.some
         THEN EndingModel(choice.ending.value)
         ELSE RedirectModel(choice)
    ELSE ResponseModel

(* Prompt::model *)
Model(cs) ==
    IF Len(cs) = 1
    THEN LET choice == cs[1] IN
         IF choice.input.some
         THEN InputModel(choice.input.value.name, choice.input.value.text)
         ELSE IF choice.response.some = FALSE
         THEN IF choice.ending.some
              THEN EndingModel(choice.ending.value)
              ELSE RedirectModel(choice)
         ELSE ResponseModel
    ELSE ResponseModel

----------------------------------------------------------------------------
(* Notes: the usability predicate of a choice.  A requirement names the    *)
(* notes that must be present and the notes that must be absent.           *)

Require(has, hasnt) == Some([has |-> has, hasnt |-> hasnt])

(* Choice::can_player_use *)
CanPlayerUse(choice, ns) ==
    \/ choice.require.some = FALSE
    \/ /\ choice.require.value.has \subseteq ns
       /\ choice.require.value.hasnt \cap ns = {}

UsableChoicesRequiredOnly(cs, ns) ==
    SelectSeq(cs, LAMBDA choice : choice.require.some /\ CanPlayerUse(choice, ns))

(* Prompt::usable_choices *)
UsableChoices(cs, ns) ==
    SelectSeq(cs, LAMBDA choice : CanPlayerUse(choice, ns))

----------------------------------------------------------------------------
(* Validation. *)

Ok == [ok |-> TRUE]

Err(e) == [ok |-> FALSE, error |-> e]

(* Choice::validate: the violation of a choice, if any. *)
ChoiceValidate(choice, has_company, prompts) ==
    IF has_company /\ choice.response.some = FALSE
    THEN Err("MissingResponseInMenu")
    ELSE IF choice.jump.some /\ choice.jump.value \notin prompts
    THEN Err("DanglingDestination")
    ELSE IF choice.input.some /\ choice.ending.some
    THEN Err("MalformedChoiceShape")
    ELSE IF ~choice.response.some /\ ~choice.input.some /\ ~choice.ending.some /\ ~choice.jump.some
    THEN Err("MalformedChoiceShape")
    ELSE Ok

(* The iterator of Prompt::validate from choice i on: the map closure runs *)
(* on a choice only when collect asks for it, and collect into a Result    *)
(* stops asking at the first Err.  `validated` records the choices that    *)
(* Choice::validate has run on.                                            *)
RECURSIVE ValidateFrom(_, _, _, _, _)
ValidateFrom(cs, i, has_company, prompts, validated) ==
    IF i > Len(cs)
    THEN [result |-> Ok, validated |-> validated]
    ELSE LET r == ChoiceValidate(cs[i], has_company, prompts) IN
         IF r.ok
         THEN ValidateFrom(cs, i + 1, has_company, prompts, validated \cup {i})
         ELSE [result |-> Err([index |-> i, error |-> r.error]),
               validated |-> validated \cup {i}]

(* Prompt::validate *)
Validate(cs, prompts) ==
    LET has_company == Len(cs) > 1
    IN  ValidateFrom(cs, 1, has_company, prompts, {})

----------------------------------------------------------------------------
(* The game-loop variables are idle while a pure function is checked. *)

Idle ==
    /\ began = FALSE
    /\ entry = "start"
    /\ notes = {}
    /\ variables = <<>>
    /\ pc = "idle"
    /\ model = ResponseModel
    /\ choices = <<>>
    /\ outcome = NoCall
    /\ silent = None
    /\ exiting = FALSE

(* Prompts whose choices take every shape the classification reads. *)
ModelChoices ==
    {Bare(r, i, e, j) :
        r \in {None, Some("Go on")},
        i \in {None, Some(Input("name", None)), Some(Input("name", Some("Who?")))},
        e \in {None, Some(Farewell)},
        j \in {None, Some("end")}}

InitModel ==
    /\ arg \in {[choices |-> cs] : cs \in BoundedSeq(ModelChoices, MaxChoices)}
    /\ ret = NoCall
    /\ Idle

CallModel ==
    /\ ret = NoCall
    /\ ret' = [op |-> "model", value |-> Model(arg.choices)]
    /\ UNCHANGED <<arg, gvars>>

NextModel == CallModel

SpecModel == InitModel /\ [][NextModel]_vars

----------------------------------------------------------------------------
(* Prompt::validate on the prompts of a file whose only prompt names are    *)
(* Known: a choice may jump to "end" or to the missing prompt "nowhere".    *)

Known == {"start", "end"}

ValidateChoices ==
    {Bare(r, i, e, j) :
        r \in {None, Some("Go on")},
        i \in {None, Some(Input("name", None))},
        e \in {None, Some(Farewell)},
        j \in {None, Some("end"), Some("nowhere")}}

InitValidate ==
    /\ arg \in {[choices |-> cs] : cs \in BoundedSeq(ValidateChoices, MaxChoices)}
    /\ ret = NoCall
    /\ Idle

CallValidate ==
    /\ ret = NoCall
    /\ ret' = [op |-> "validate", value |-> Validate(arg.choices, Known)]
    /\ UNCHANGED <<arg, gvars>>

NextValidate == CallValidate

SpecValidate == InitValidate /\ [][NextValidate]_vars

----------------------------------------------------------------------------
(* Prompt::usable_choices on choices with and without a requirement, under  *)
(* notes that a choice taken in between may change.                         *)

NoteNames == {"X", "Y"}

UsableShapes ==
    {Choice(Some(r), None, None, Some("end"), q, {}, <<>>) :
        r \in {"Left", "Right"},
        q \in {None, Require({}, {"X"}), Require({"X"}, {}), Require({"Y"}, {"X"})}}

InitUsable ==
    /\ arg \in {[choices |-> cs, notes |-> ns] :
                    cs \in BoundedSeq(UsableShapes, MaxUsable), ns \in SUBSET NoteNames}
    /\ ret = NoCall
    /\ Idle

(* The first call. *)
CallUsableChoices ==
    /\ ret = NoCall
    /\ ret' = [op |-> "usable_choices", notes |-> arg.notes,
               value |-> UsableChoices(arg.choices, arg.notes), before |-> None]
    /\ UNCHANGED <<arg, gvars>>

(* Between two calls a note is removed from, or added to, the notes. *)
ChangeNotes ==
    /\ ret.op = "usable_choices"
    /\ ret.before = None
    /\ ret.notes = arg.notes
    /\ \E n \in NoteNames :
          arg' = [arg EXCEPT !.notes = IF n \in @ THEN @ \ {n} ELSE @ \cup {n}]
    /\ UNCHANGED <<ret, gvars>>

(* The second call, which remembers the first. *)
CallUsableChoicesAgain ==
    /\ ret.op = "usable_choices"
    /\ ret.before = None
    /\ ret' = [op |-> "usable_choices", notes |-> arg.notes,
               value |-> UsableChoices(arg.choices, arg.notes),
               before |-> Some([notes |-> ret.notes, value |-> ret.value])]
    /\ UNCHANGED <<arg, gvars>>

NextUsable == CallUsableChoices \/ ChangeNotes \/ CallUsableChoicesAgain

SpecUsable == InitUsable /\ [][NextUsable]_vars

----------------------------------------------------------------------------
(* Text::get_separated_lines on lines whose mode and newline are literals   *)
(* or templates, in contexts where the templates resolve and where they do  *)
(* not.                                                                     *)

LineShapes ==
    {Text(Value("..."), m, n) :
        m \in {Value("dialogue"), Value("action"), Value("system"), Template("mode")},
        n \in {None, Some(Value(TRUE)), Some(Template("nl"))}}

LineContexts ==
    {TextContext("Game", {}, vs, "en_us") :
        vs \in {[mode |-> "system", nl |-> "false"],
                [mode |-> "action", nl |-> "true"],
                [nl |-> "maybe"]}}

InitLines ==
    /\ arg \in {[lines |-> ls, context |-> c] :
                    ls \in BoundedSeq(LineShapes, MaxLines), c \in LineContexts}
    /\ ret = NoCall
    /\ Idle

CallGetSeparatedLines ==
    /\ ret = NoCall
    /\ ret' = [op |-> "get_separated_lines",
               value |-> GetSeparatedLines(arg.lines, arg.context)]
    /\ UNCHANGED <<arg, gvars>>

NextLines == CallGetSeparatedLines

SpecLines == InitLines /\ [][NextLines]_vars

----------------------------------------------------------------------------
(* TextContext::global_variable on references with and without the prefix, *)
(* in contexts whose notes and variables use the names of the built-ins.   *)

EngineGameName == <<"e", "n", "g", "i", "n", "e", ":", "g", "a", "m", "e", "_", "n", "a", "m", "e">>

References ==
    {NagePrefix \o GameName,
     <<"N", "A", "G", "E", ":", "G", "a", "m", "e", "_", "N", "a", "m", "e">>,
     EngineGameName,
     GameName,
     NagePrefix \o GameAuthors,
     NagePrefix \o GameVersion,
     NagePrefix \o Lang,
     NagePrefix \o <<"n", "a", "m", "e">>}

GlobalContexts ==
    {TextContext(n, ns, vs, "en_us") :
        n \in {"Mystery Manor", "game_name"},
        ns \in SUBSET {"X", "game_name"},
        vs \in {<<>>, [game_name |-> "Player"], [game_name |-> "Mystery Manor", lang |-> "fr"]}}

InitGlobal ==
    /\ arg \in {[var |-> v, context |-> c] : v \in References, c \in GlobalContexts}
    /\ ret = NoCall
    /\ Idle

CallGlobalVariable ==
    /\ ret = NoCall
    /\ ret' = [op |-> "global_variable", value |-> GlobalVariable(arg.context, arg.var)]
    /\ UNCHANGED <<arg, gvars>>

NextGlobal == CallGlobalVariable

SpecGlobal == InitGlobal /\ [][NextGlobal]_vars

----------------------------------------------------------------------------
(* The game.  One prompt file: two menus, an input prompt, a redirect and  *)
(* an ending, with choices that need notes, apply notes and set variables. *)

Prompts ==
    [start |-> <<
        Choice(Some("Take the key"), None, None, Some("start"),
               Require({}, {"key"}), {"key"}, <<>>),
        Choice(Some("Touch the idol"), None, None, Some("start"),
               None, {"cursed"}, [mood |-> "dark"]),
        Choice(Some("Open the door"), None, None, Some("ask"),
               Require({"key"}, {}), {}, <<>>),
        Choice(Some("Jump into the pit"), None, None, Some("final"),
               None, {}, <<>>),
        Choice(Some("Give up"), None, Some(FarewellTo), None,
               None, {"gone"}, [mood |-> "sad"]),
        Choice(Some("Enter the vault"), None, None, Some("vault"),
               None, {}, <<>>) >>,
     vault |-> <<
        Choice(Some("Take the gold"), None, None, Some("final"),
               Require({"key"}, {}), {}, <<>>),
        Choice(Some("Leave"), None, None, Some("start"),
               Require({"key"}, {}), {}, <<>>) >>,
     ask |-> <<
        Choice(None, Some(Input("name", Some("Who goes there?"))), None, Some("hall"),
               None, {}, <<>>) >>,
     hall |-> <<
        Choice(None, None, None, Some("final"),
               Require({}, {"cursed"}), {"hall"}, <<>>) >>,
     final |-> <<
        Choice(None, None, Some(Farewell), None,
               Require({}, {"cursed"}), {}, <<>>) >>]

Answers == {"Ava", "Bo"}

(* GameLoopResult, and the Err of a Result<GameLoopResult> *)

Retry(flush) == [tag |-> "Retry", flush |-> flush]

Continue == [tag |-> "Continue"]

Shutdown(s) == [tag |-> "Shutdown", silent |-> s]

Failed(e) == [tag |-> "Err", error |-> e]

(* The Ok(silent) of begin. *)
Silent(s) == [tag |-> "Ok", value |-> s]

(* The player: the fields the loop reads and writes. *)
Player == [entry |-> entry, notes |-> notes, variables |-> variables]

Merge(a, b) ==
    [k \in DOMAIN a \cup DOMAIN b |-> IF k \in DOMAIN a THEN a[k] ELSE b[k]]

(* What taking a choice does to the player: its notes are applied, its     *)
(* variables set, and the location moves to its destination, if any.       *)
Taken(player, choice) ==
    [entry |-> IF choice.jump.some THEN choice.jump.value ELSE player.entry,
     notes |-> player.notes \cup choice.apply,
     variables |-> Merge(choice.set, player.variables)]

(* Player::choose and Player::choose_full return a Result: the outcomes    *)
(* are the choice taken, or an error that leaves the player as it was.     *)
Choose(player, choice) ==
    {[ok |-> TRUE, player |-> Taken(player, choice)],
     [ok |-> FALSE, player |-> player]}

(* Text::print_lines returns a Result: literal lines print; lines with a   *)
(* template in their content or mode may fail to resolve.                  *)
PrintLines(lines) ==
    IF \E i \in 1..Len(lines) : lines[i].content.templated \/ lines[i].mode.templated
    THEN {TRUE, FALSE}
    ELSE {TRUE}

(* handle_quit *)
HandleQuit(shutdown) == IF shutdown THEN Shutdown(FALSE) ELSE Retry(TRUE)

(* handle_choice: the outcomes, each the Result and the player after it.   *)
HandleChoice(choice, player) ==
    UNION {IF ~c.ok
           THEN {[result |-> Failed("choose_full"), player |-> c.player]}
           ELSE IF choice.ending.some
           THEN {[result |-> IF printed THEN Shutdown(TRUE) ELSE Failed("print_lines"),
                  player |-> c.player] : printed \in PrintLines(choice.ending.value)}
           ELSE {[result |-> Continue, player |-> c.player]} :
           c \in Choose(player, choice)}

(* The InputResult::Variable arm of take_input: choose, then the insert,   *)
(* then try_push_log, which may fail.                                      *)
TakeVariable(choice, result, player) ==
    UNION {IF ~c.ok
           THEN {[result |-> Failed("choose"), player |-> c.player]}
           ELSE LET inserted == [c.player EXCEPT
                        !.variables = Merge([k \in {result[1]} |-> result[2]], @)]
                IN  {[result |-> IF pushed THEN Continue ELSE Failed("try_push_log"),
                      player |-> inserted] : pushed \in BOOLEAN} :
           c \in Choose(player, choice)}

(* The runtime commands: one that does not parse, one that fails, .quit,   *)
(* and the commands that apply a note to the player or take it away.       *)
Commands ==
    {[name |-> "unknown"], [name |-> "fails"], [name |-> "quit"]}
    \cup {[name |-> n, note |-> x] : n \in {"apply", "take"}, x \in {"key", "cursed"}}

(* RuntimeCommand::run: an error, a submitted loop result or an output,    *)
(* and the player after it.                                                *)
Run(command, player) ==
    CASE command.name = "fails" -> [kind |-> "Err", player |-> player]
      [] command.name = "quit" ->
            [kind |-> "Submit", result |-> Shutdown(FALSE), player |-> player]
      [] command.name = "apply" ->
            [kind |-> "Output", player |-> [player EXCEPT !.notes = @ \cup {command.note}]]
      [] command.name = "take" ->
            [kind |-> "Output", player |-> [player EXCEPT !.notes = @ \ {command.note}]]

(* handle_command *)
HandleCommand(command, player) ==
    IF command.name = "unknown"
    THEN [result |-> Retry(FALSE), player |-> player]
    ELSE LET ran == Run(command, player) IN
         IF ran.kind = "Submit"
         THEN [result |-> ran.result, player |-> ran.player]
         ELSE [result |-> Retry(TRUE), player |-> ran.player]

(* InputContext *)

ChoicesContext(n) == [tag |-> "Choices", n |-> n]

VariableContext(name, text) == [tag |-> "Variable", name |-> name, text |-> text]

NextInputContextResponseOnly(m, cs) ==
    IF m.tag = "Response" THEN Some(ChoicesContext(Len(cs))) ELSE None

(* next_input_context.  The prompt text of an input is a literal here, so  *)
(* filling it does not fail.                                               *)
NextInputContext(m, cs) ==
    IF m.tag = "Response" THEN Some(ChoicesContext(Len(cs)))
    ELSE IF m.tag = "Input" THEN Some(VariableContext(m.name, m.text))
    ELSE None

(* InputController::take: what the player may enter in a context. *)
Take(context) ==
    {[tag |-> "Err"]}
    \cup {[tag |-> "Quit", shutdown |-> b] : b \in BOOLEAN}
    \cup {[tag |-> "Command", command |-> c] : c \in Commands}
    \cup (IF context.tag = "Choices"
          THEN {[tag |-> "Choice", i |-> i] : i \in 1..context.n}
          ELSE {[tag |-> "Variable", result |-> <<context.name, v>>] : v \in Answers})

(* take_input: the outcomes for one InputResult. *)
TakeInput(taken, player, cs) ==
    CASE taken.tag = "Err" -> {[result |-> Retry(TRUE), player |-> player]}
      [] taken.tag = "Quit" -> {[result |-> HandleQuit(taken.shutdown), player |-> player]}
      [] taken.tag = "Choice" -> HandleChoice(cs[taken.i], player)
      [] taken.tag = "Variable" -> TakeVariable(cs[1], taken.result, player)
      [] taken.tag = "Command" -> {HandleCommand(taken.command, player)}

----------------------------------------------------------------------------
(* begin and its caller. *)

IsEmptyNever(cs) == FALSE

(* Vec::is_empty on the usable choices. *)
IsEmpty(cs) == Len(cs) = 0

Init ==
    /\ arg = NoCall
    /\ ret = NoCall
    /\ began = FALSE
    /\ entry = "start"
    /\ notes = {}
    /\ variables = <<>>
    /\ pc = "begin"
    /\ model = ResponseModel
    /\ choices = <<>>
    /\ outcome = NoCall
    /\ silent = None
    /\ exiting = FALSE

Before == [entry |-> entry, notes |-> notes, variables |-> variables]

SetPlayer(player) ==
    /\ entry' = player.entry
    /\ notes' = player.notes
    /\ variables' = player.variables

Return(result) ==
    /\ pc' = "returned"
    /\ silent' = Some(result)

(* begin up to its loop: first_play_init on a first play. *)
Begin ==
    /\ pc = "begin"
    /\ began' = TRUE
    /\ pc' = "loop"
    /\ UNCHANGED <<arg, ret, entry, notes, variables, model, choices, outcome, silent, exiting>>

(* One pass of the outer loop up to the inner loop: the prompt is fetched  *)
(* and classified, its usable choices are gathered, and a redirect or an   *)
(* ending is carried out.  `printed` tells whether the pass has called     *)
(* next_prompt.print.                                                      *)
LoopHead ==
    /\ pc = "loop"
    /\ IF entry \notin DOMAIN Prompts
       THEN /\ Return(Failed("Invalid prompt"))
            /\ outcome' = [op |-> "get_from_path", result |-> Failed("Invalid prompt"),
                           before |-> Before, printed |-> FALSE]
            /\ UNCHANGED <<entry, notes, variables, model, choices>>
       ELSE LET next_prompt == Prompts[entry]
                m == Model(next_prompt)
                cs == UsableChoices(next_prompt, notes)
            IN  /\ model' = m
                /\ choices' = cs
                /\ IF IsEmpty(cs)
                   THEN /\ Return(Failed("No usable choices"))
                        /\ outcome' = [op |-> "usable_choices",
                                       result |-> Failed("No usable choices"),
                                       before |-> Before, printed |-> FALSE]
                        /\ UNCHANGED <<entry, notes, variables>>
                   ELSE IF m.tag = "Redirect"
                   THEN \E c \in Choose(Player, m.choice) :
                           /\ SetPlayer(c.player)
                           /\ IF c.ok
                              THEN /\ outcome' = [op |-> "redirect", result |-> Continue,
                                                  before |-> Before, printed |-> TRUE]
                                   /\ UNCHANGED <<pc, silent>>
                              ELSE /\ outcome' = [op |-> "redirect",
                                                  result |-> Failed("choose"),
                                                  before |-> Before, printed |-> TRUE]
                                   /\ Return(Failed("choose"))
                   ELSE IF m.tag = "Ending"
                   THEN /\ Return(Silent(TRUE))
                        /\ outcome' = [op |-> "ending", result |-> Shutdown(TRUE),
                                       before |-> Before, printed |-> TRUE]
                        /\ UNCHANGED <<entry, notes, variables>>
                   ELSE /\ pc' = "input"
                        /\ outcome' = [op |-> "print", result |-> Continue,
                                       before |-> Before, printed |-> TRUE]
                        /\ UNCHANGED <<entry, notes, variables, silent>>
    /\ UNCHANGED <<arg, ret, began, exiting>>

(* One pass of the inner loop: the input context, take_input on what the   *)
(* player enters, here an InputResult of the given kind, and the match on  *)
(* its result.                                                             *)
InnerLoop(kind) ==
    /\ pc = "input"
    /\ LET context == NextInputContext(model, choices) IN
       IF ~context.some
       THEN /\ Return(Failed("Could not resolve input context"))
            /\ outcome' = [op |-> "next_input_context",
                           result |-> Failed("Could not resolve input context"),
                           before |-> Before]
            /\ UNCHANGED <<entry, notes, variables>>
       ELSE \E taken \in {t \in Take(context.value) : t.tag = kind} :
            \E o \in TakeInput(taken, Player, choices) :
               /\ SetPlayer(o.player)
               /\ outcome' = [op |-> taken.tag, result |-> o.result, before |-> Before]
               /\ CASE o.result.tag = "Err" -> Return(o.result)
                    [] o.result.tag = "Retry" -> UNCHANGED <<pc, silent>>
                    [] o.result.tag = "Continue" -> pc' = "loop" /\ UNCHANGED silent
                    [] o.result.tag = "Shutdown" -> Return(Silent(o.result.silent))
    /\ UNCHANGED <<arg, ret, began, model, choices, exiting>>

(* The input could not be read. *)
InputErr == InnerLoop("Err")

(* The player signals quit. *)
InputQuit == InnerLoop("Quit")

(* The player picks a choice of the menu. *)
InputChoice == InnerLoop("Choice")

(* The player enters the content of a variable. *)
InputVariable == InnerLoop("Variable")

(* The player enters a runtime command. *)
InputCommand == InnerLoop("Command")

ShutdownLoud ==
    /\ pc = "returned"
    /\ silent.value.tag # "Err"
    /\ exiting' = TRUE
    /\ pc' = "exited"
    /\ UNCHANGED <<arg, ret, began, entry, notes, variables, model, choices, outcome, silent>>

(* shutdown(config, player, silent), called with what begin returned. *)
ShutdownGame ==
    /\ pc = "returned"
    /\ silent.value.tag # "Err"
    /\ exiting' = ~silent.value.value
    /\ pc' = "exited"
    /\ UNCHANGED <<arg, ret, began, entry, notes, variables, model, choices, outcome, silent>>

(* An Err of begin ends the game with crash_context. *)
Crash ==
    /\ pc = "returned"
    /\ silent.value.tag = "Err"
    /\ pc' = "crashed"
    /\ UNCHANGED <<arg, ret, began, entry, notes, variables, model, choices, outcome, silent, exiting>>

Next ==
    \/ Begin
    \/ LoopHead
    \/ InputErr
    \/ InputQuit
    \/ InputChoice
    \/ InputVariable
    \/ InputCommand
    \/ ShutdownGame
    \/ Crash

Spec == Init /\ [][Next]_vars

----------------------------------------------------------------------------
(* C1: Prompt::model returns exactly one variant, decided in the order     *)
(* Input (one choice with an input descriptor, carrying its name and       *)
(* optional text), then Ending (one choice, no response, ending text),     *)
(* then Redirect (one choice, no response, no ending, carrying the choice  *)
(* with or without a destination), and Response in every other case.       *)
C1_ModelTotalInOrder ==
    ret.op = "model" =>
        LET cs == arg.choices
            m == ret.value
            one == Len(cs) = 1
        IN  /\ m.tag \in {"Input", "Response", "Redirect", "Ending"}
            /\ IF one /\ cs[1].input.some
               THEN m = InputModel(cs[1].input.value.name, cs[1].input.value.text)
               ELSE IF one /\ ~cs[1].response.some /\ cs[1].ending.some
               THEN m = EndingModel(cs[1].ending.value)
               ELSE IF one /\ ~cs[1].response.some /\ ~cs[1].ending.some
               THEN m = RedirectModel(cs[1])
               ELSE m = ResponseModel

(* A single choice with an input descriptor, ending text and no response   *)
(* is classified Input.                                                    *)
C1_Witness ==
    /\ ret.op = "model"
    /\ Len(arg.choices) = 1
    /\ arg.choices[1].input.some
    /\ arg.choices[1].ending.some
    /\ ~arg.choices[1].response.some
    /\ ret.value.tag = "Input"

(* C2 as stated: Response for every prompt whose number of choices is not  *)
(* 1 and for every single-choice prompt whose choice has response text,    *)
(* whatever its other fields.                                              *)
C2_ResponseWhateverOtherFields ==
    ret.op = "model" =>
        LET cs == arg.choices IN
        (Len(cs) # 1 \/ cs[1].response.some) => ret.value = ResponseModel

(* C2 amended: Response for every prompt whose number of choices is not 1  *)
(* and for every single-choice prompt whose choice has response text and   *)
(* no input descriptor; a single choice with an input descriptor is Input  *)
(* even when it has response text.                                         *)
C2_ResponseUnlessInput ==
    ret.op = "model" =>
        LET cs == arg.choices IN
        /\ (Len(cs) # 1 \/ (cs[1].response.some /\ ~cs[1].input.some))
                => ret.value = ResponseModel
        /\ (Len(cs) = 1 /\ cs[1].response.some /\ cs[1].input.some)
                => ret.value.tag = "Input"

C2_Witness ==
    /\ ret.op = "model"
    /\ Len(arg.choices) = 1
    /\ arg.choices[1].response.some
    /\ arg.choices[1].ending.some
    /\ arg.choices[1].jump.some
    /\ ~arg.choices[1].input.some
    /\ ret.value = ResponseModel

(* C3 as stated: when Prompt::validate fails, Choice::validate has run on  *)
(* every choice of the prompt and the error reports every invalid choice.  *)
C3_ValidateReportsEveryViolation ==
    (ret.op = "validate" /\ ~ret.value.result.ok) =>
        LET cs == arg.choices IN
        \A i \in 1..Len(cs) :
            /\ i \in ret.value.validated
            /\ ~ChoiceValidate(cs[i], Len(cs) > 1, Known).ok
                   => ret.value.result.error.index = i

(* C7: usable_choices returns exactly the choices whose predicate holds    *)
(* under the notes, a choice without predicate included, in their original *)
(* order; with unchanged notes a second call returns the same list; a      *)
(* choice that requires X absent is in the result exactly when X is not in *)
(* the notes.                                                              *)
C7_UsableChoicesExact ==
    ret.op = "usable_choices" =>
        LET cs == arg.choices
            r == ret.value
            use == {i \in 1..Len(cs) :
                       \/ ~cs[i].require.some
                       \/ /\ cs[i].require.value.has \subseteq ret.notes
                          /\ cs[i].require.value.hasnt \cap ret.notes = {}}
            nth(k) == CHOOSE i \in use : Cardinality({j \in use : j <= i}) = k
        IN  /\ Len(r) = Cardinality(use)
            /\ \A k \in 1..Len(r) : r[k] = cs[nth(k)]
            /\ \A i \in 1..Len(cs) :
                  cs[i].require = Require({}, {"X"}) =>
                      ((\E k \in 1..Len(r) : r[k] = cs[i]) <=> "X" \notin ret.notes)
            /\ (ret.before.some /\ ret.before.value.notes = ret.notes)
                  => ret.before.value.value = r

(* A choice requiring X absent was left out while X was in the notes and   *)
(* is returned, after a choice without predicate, once X is removed.       *)
C7_Witness ==
    /\ ret.op = "usable_choices"
    /\ ret.before.some
    /\ "X" \in ret.before.value.notes
    /\ "X" \notin ret.notes
    /\ Len(arg.choices) = 3
    /\ arg.choices[1].require = Require({"X"}, {})
    /\ arg.choices[2].require = None
    /\ arg.choices[3].require = Require({}, {"X"})
    /\ ret.before.value.value = <<arg.choices[1], arg.choices[2]>>
    /\ ret.value = <<arg.choices[2], arg.choices[3]>>

(* C8: get_separated_lines gives each line one newline flag, in line       *)
(* order: the resolved value of its newline override when it has one;      *)
(* otherwise false for the first line and, for a later line, true exactly  *)
(* when its resolved mode differs from the resolved mode of the line       *)
(* before it.  It fails exactly when a value a flag needs does not         *)
(* resolve.                                                                *)
C8_NewlineFlags ==
    ret.op = "get_separated_lines" =>
        LET ls == arg.lines
            c == arg.context
            mode(i) == GetValue(ls[i].mode, "TextMode", c)
            over(i) == GetValue(ls[i].newline.value, "bool", c)
            resolves(i) == IF ls[i].newline.some THEN over(i).ok
                           ELSE i = 1 \/ (mode(i).ok /\ mode(i - 1).ok)
        IN  /\ ret.value.ok <=> \A i \in 1..Len(ls) : resolves(i)
            /\ ret.value.ok =>
                  /\ Len(ret.value.value) = Len(ls)
                  /\ \A i \in 1..Len(ls) :
                        /\ ret.value.value[i][2] = ls[i]
                        /\ ret.value.value[i][1] =
                              IF ls[i].newline.some THEN over(i).value
                              ELSE IF i = 1 THEN FALSE
                              ELSE mode(i).value # mode(i - 1).value

(* Lines of modes Dialogue, Dialogue, Action without overrides get the     *)
(* flags false, false, true.                                               *)
C8_Witness ==
    /\ ret.op = "get_separated_lines"
    /\ Len(arg.lines) = 3
    /\ \A i \in 1..3 : arg.lines[i].newline = None
    /\ arg.lines[1].mode = Value("dialogue")
    /\ arg.lines[2].mode = Value("dialogue")
    /\ arg.lines[3].mode = Value("action")
    /\ ret.value.ok
    /\ <<ret.value.value[1][1], ret.value.value[2][1], ret.value.value[3][1]>>
           = <<FALSE, FALSE, TRUE>>

C4_FailedChoiceIsRetried ==
    (outcome.op \in {"Choice", "Variable"} /\ outcome.result.tag = "Err") =>
        /\ pc = "input"
        /\ silent = None
        /\ entry = outcome.before.entry

(* C5 as stated: when handle_choice or the Variable arm of take_input      *)
(* returns an error, the notes and variables of the player are those       *)
(* before the call.                                                        *)
C5_FailedChoiceCommitsNothing ==
    (outcome.op \in {"Choice", "Variable"} /\ outcome.result.tag = "Err") =>
        /\ notes = outcome.before.notes
        /\ variables = outcome.before.variables

(* C6 as stated: whenever the loop waits for the input of the player, the  *)
(* choice list it interprets the input with is usable_choices of the       *)
(* current prompt under the notes of the player at that moment.            *)
C6_ChoicesNeverStale ==
    pc = "input" => choices = UsableChoices(Prompts[entry], notes)

(* C9 as stated: once handle_choice has returned Shutdown(true), or begin  *)
(* has reached a prompt classified Ending, begin returns true.             *)
C9_EndingPromptReturnsTrue ==
    \/ outcome.op = "Choice" /\ outcome.result = Shutdown(TRUE)
    \/ pc \notin {"begin", "loop"} /\ model.tag = "Ending"
    => silent = Some(Silent(TRUE))

(* What is left to happen once begin has returned true: the shutdown,      *)
(* which prints nothing; no prompt is fetched, no input read.              *)
C9_OnlySilentShutdown ==
    silent = Some(Silent(TRUE)) =>
        /\ UNCHANGED <<began, entry, notes, variables, model, choices, outcome, silent>>
        /\ pc' = "exited"
        /\ exiting' = FALSE

(* C9 amended: once handle_choice has returned Shutdown(true), or begin    *)
(* has reached a prompt classified Ending of which a choice is usable,     *)
(* begin returns true, no further prompt is fetched and no input read, and *)
(* shutdown does not print "Exiting..."; an Ending prompt whose choice is  *)
(* not usable makes begin fail with "No usable choices".                   *)
C9_EndingIsTerminal ==
    /\ [](/\ (\/ outcome.op = "Choice" /\ outcome.result = Shutdown(TRUE)
              \/ pc \notin {"begin", "loop"} /\ model.tag = "Ending" /\ choices # <<>>)
             => (silent = Some(Silent(TRUE)) /\ ~exiting)
          /\ (pc \notin {"begin", "loop"} /\ model.tag = "Ending" /\ choices = <<>>)
             => silent = Some(Failed("No usable choices")))
    /\ [][C9_OnlySilentShutdown]_vars

(* The game has shut down in silence after a usable Ending prompt. *)
C9_Witness ==
    /\ pc = "exited"
    /\ model.tag = "Ending"
    /\ outcome.op = "ending"
    /\ silent = Some(Silent(TRUE))
    /\ ~exiting

(* C11: a prompt classified Redirect is followed without input: when the   *)
(* pass goes on to fetch the next prompt, the single choice has been taken *)
(* through player.choose, its notes applied, its variables set and the     *)
(* location moved; input is read only on prompts classified Response or    *)
(* Input, the two models next_input_context gives a context for, so begin  *)
(* never fails with "Could not resolve input context".                     *)
C11_RedirectFollowedWithoutInput ==
    /\ (outcome.op = "redirect" /\ outcome.result = Continue) =>
          /\ model.tag = "Redirect"
          /\ pc = "loop"
          /\ Player = Taken(outcome.before, Prompts[outcome.before.entry][1])
          /\ model.choice = Prompts[outcome.before.entry][1]
    /\ model.tag \in {"Redirect", "Ending"} => pc \in {"loop", "returned", "exited", "crashed"}
    /\ (pc = "input" \/ outcome.op \in {"Err", "Quit", "Choice", "Variable", "Command"})
          => model.tag \in {"Response", "Input"}
    /\ NextInputContext(model, choices).some <=> model.tag \in {"Response", "Input"}
    /\ outcome.op # "next_input_context"
    /\ silent # Some(Failed("Could not resolve input context"))

(* The redirect of the hall has been followed after the input of a name:   *)
(* its note is applied and the location is its destination.                *)
C11_Witness ==
    /\ outcome.op = "redirect"
    /\ outcome.result = Continue
    /\ outcome.before.entry = "hall"
    /\ "hall" \notin outcome.before.notes
    /\ "hall" \in notes
    /\ "name" \in DOMAIN variables
    /\ entry = "final"
    /\ pc = "loop"

LoopHeadOps == {"get_from_path", "usable_choices", "redirect", "ending", "print"}

(* C12: when no choice of the current prompt is usable under the notes of  *)
(* the player, the pass of begin fails with "No usable choices" before it  *)
(* prints the prompt, takes a choice or reads input, also when the prompt  *)
(* is classified Redirect or Ending; so whenever take_input runs the list  *)
(* of usable choices is not empty and its first choice exists.             *)
C12_NoUsableChoicesFailsFirst ==
    /\ (/\ outcome.op \in LoopHeadOps
        /\ \A i \in 1..Len(Prompts[outcome.before.entry]) :
              ~CanPlayerUse(Prompts[outcome.before.entry][i], outcome.before.notes))
          => /\ outcome.op = "usable_choices"
             /\ silent = Some(Failed("No usable choices"))
             /\ pc \in {"returned", "crashed"}
             /\ ~outcome.printed
             /\ Player = outcome.before
             /\ model = Model(Prompts[outcome.before.entry])
    /\ (pc = "input" \/ outcome.op \in {"Err", "Quit", "Choice", "Variable", "Command"})
          => /\ Len(choices) >= 1
             /\ choices[1] \in {Prompts[outcome.before.entry][i] :
                                   i \in 1..Len(Prompts[outcome.before.entry])}

(* begin has failed on the redirect of the hall, whose choice the cursed   *)
(* player cannot use.                                                      *)
C12_Witness ==
    /\ outcome.op = "usable_choices"
    /\ model.tag = "Redirect"
    /\ entry = "hall"
    /\ "cursed" \in notes
    /\ silent = Some(Failed("No usable choices"))

====
